---------------------------- MODULE Spec2Model ----------------------------
(***************************************************************************)
(* django-tex, django_tex/core.py: TexBuildCore writes a tex source into a *)
(* temporary directory, runs the interpreter there through one shell       *)
(* command, inspects exit code and artifact, and hands the pdf to a        *)
(* finishing callback (read the bytes, or print) before the directory is   *)
(* removed.                                                                *)
(*                                                                         *)
(* Python str values are sequences of one-character strings, bytes values  *)
(* are sequences of code points, so that formatting, quoting, joining and  *)
(* decoding are computed character by character as the library does.       *)
(***************************************************************************)
EXTENDS Integers, Sequences, FiniteSets, TLC

(***************************************************************************)
(* String literals of core.py                                              *)
(***************************************************************************)
\* core.py:14  DEFAULT_INTERPRETER = 'lualatex'
DEFAULT_INTERPRETER ==
    <<"l","u","a","l","a","t","e","x">>

\* core.py:76  getattr(settings, 'LATEX_UNIX_PRINT_COMMAND', 'lpr')
DEFAULT_PRINT_COMMAND ==
    <<"l","p","r">>

\* core.py:22  the key 'lp' of PRINTING_DEVICE_OPTIONS
LP ==
    <<"l","p">>

\* core.py:23  the key 'lpr' of PRINTING_DEVICE_OPTIONS
LPR ==
    <<"l","p","r">>

\* core.py:43  f'{self.base_filename}.tex'
DOT_TEX ==
    <<".","t","e","x">>

\* core.py:57, 60  f'{self.base_filename}.pdf'
DOT_PDF ==
    <<".","p","d","f">>

\* core.py:54  'texput.log'
TEXPUT_LOG ==
    <<"t","e","x","p","u","t",".","l","o","g">>

\* core.py:49  the ' && ' that starts latex_call
AND_SEP ==
    <<" ","&","&"," ">>

\* core.py:49  ' -interaction=batchmode '
BATCHMODE ==
    <<" ","-","i","n","t","e","r","a","c","t","i","o","n","=","b","a","t","c","h","m",
      "o","d","e"," ">>

\* core.py:50  'cd "'
CD_OPEN ==
    <<"c","d"," ","\"">>

\* core.py:50  '" '
CD_CLOSE ==
    <<"\""," ">>

\* core.py:41
MSG_NOT_CALLABLE ==
    <<"p","a","r","a","m","e","t","e","r"," ","c","a","l","l","_","b","a","c","k"," ",
      "n","e","e","d","s"," ","t","o"," ","b","e"," ","c","a","l","l","a","b","l","e",
      "!">>

\* core.py:59
MSG_FILE ==
    <<"F","i","l","e"," ">>

\* core.py:59
MSG_NOT_FOUND ==
    <<" ","n","o","t"," ","f","o","u","n","d"," ","o","r"," ","i","s"," ","n","o","t",
      " ","a"," ","f","i","l","e","!">>

\* core.py:90, 92
MSG_PRINTING_WITH ==
    <<"P","r","i","n","t","i","n","g"," ","w","i","t","h"," ","'">>

\* core.py:90
MSG_RESULTED ==
    <<"'"," ","r","e","s","u","l","t","e","d"," ","i","n"," ","a","n"," ","e","r","r",
      "o","r","."," ","'">>

\* core.py:92-93
MSG_STILL_WROTE ==
    <<"'"," ","d","i","d"," ","n","o","t"," ","r","e","s","u","l","t"," ","i","n"," ",
      "a","n"," ","e","r","r","o","r"," ","b","u","t"," ","s","t","i","l","l"," ","w",
      "r","o","t","e"," ","s","o","m","e","t","h","i","n","g",","," ","t","o"," ","s",
      "t","d","e","r","r","."," ","'","'">>

\* core.py:79
MSG_NO_PRINTER ==
    <<"N","o"," ","d","e","f","a","u","l","t"," ","p","r","i","n","t","e","r"," ","s",
      "e","t",","," ","u","s","i","n","g"," ","d","e","f","a","u","l","t",".">>

\* core.py:81
MSG_UNKNOWN_A ==
    <<"T","h","e"," ","u","n","k","n","o","w","n"," ","c","u","s","t","o","m"," ","p",
      "r","i","n","t","i","n","g"," ","c","o","m","m","a","n","d"," ","'">>

\* core.py:81-83
MSG_UNKNOWN_B ==
    <<"'"," ","w","a","s"," ","d","e","f","i","n","e","d"," ","a","n","d"," ","a","s",
      " ","w","e","l","l"," ","a","s"," ","a"," ","n","o","n"," ","d","e","f","a","u",
      "l","t"," ","p","r","i","n","t","e","r","."," ","P","l","e","a","s","e"," ","e",
      "d","i","t"," ","'","P","R","I","N","T","I","N","G","_","D","E","V","I","C","E",
      "_","O","P","T","I","O","N","S","'"," ","i","n"," ","t","h","e"," ","m","o","d",
      "u","l","e"," ","a","c","c","o","r","d","i","n","g"," ","t","o"," ","y","o","u",
      "r"," ","n","e","e","d","s",".">>

\* shlex.quote: s.replace("'", "'\"'\"'")
QUOTE_ESCAPE ==
    <<"'","\"","'","\"","'">>

\* the printable ASCII characters, code points 32..126 in order (code point 96, which a TLA+ string cannot hold, is written GRAVE)
ASCII_PRINTABLE ==
    <<" ","!","\"","#","$","%","&","'","(",")","*","+",",","-",".","/","0","1","2","3",
      "4","5","6","7","8","9",":",";","<","=",">","?","@","A","B","C","D","E","F","G",
      "H","I","J","K","L","M","N","O","P","Q","R","S","T","U","V","W","X","Y","Z","[",
      "\\","]","^","_","GRAVE","a","b","c","d","e","f","g","h","i","j","k","l","m","n",
      "o","p","q","r","s","t","u","v","w","x","y","z","{","|","}","~">>

\* shlex.quote: the characters outside [^\w@%+=:,./-] (re.ASCII)
SAFE_CHARS ==
    <<"a","b","c","d","e","f","g","h","i","j","k","l","m","n","o","p","q","r","s","t",
      "u","v","w","x","y","z","A","B","C","D","E","F","G","H","I","J","K","L","M","N",
      "O","P","Q","R","S","T","U","V","W","X","Y","Z","0","1","2","3","4","5","6","7",
      "8","9","_","@","%","+","=",":",",",".","/","-">>

\* core.py:22  PRINTING_DEVICE_OPTIONS['lp']
LP_DEVICE ==
    <<"-","d"," ","{","}">>

\* core.py:23  PRINTING_DEVICE_OPTIONS['lpr']
LPR_DEVICE ==
    <<"-","P"," ","{","}">>

\* core.py:28  base_filename: str = 'texput'
DEFAULT_BASE ==
    <<"t","e","x","p","u","t">>

\* tempfile: gettempdir()
TMP_ROOT ==
    <<"/","t","m","p">>

(***************************************************************************)
(* Library functions core.py calls                                         *)
(***************************************************************************)

\* core.py:17  DEFAULT_RUN_COUNT = 1
DEFAULT_RUN_COUNT == 1

\* the set of the elements of a sequence
Range(s) == {s[i] : i \in 1..Len(s)}

\* s[from:] of Python, from counted from 1
Tail_From(s, from) == SubSeq(s, from, Len(s))

\* str.startswith
StartsWith(s, p) == Len(p) <= Len(s) /\ SubSeq(s, 1, Len(p)) = p

\* the first position from i on where p occurs in s; 0 when there is none
RECURSIVE FindFrom(_, _, _)
FindFrom(s, p, i) ==
    IF i + Len(p) - 1 > Len(s) THEN 0
    ELSE IF SubSeq(s, i, i + Len(p) - 1) = p THEN i
    ELSE FindFrom(s, p, i + 1)

\* str.find, counted from 1; 0 when p does not occur
Find(s, p) == FindFrom(s, p, 1)

\* str.replace(old, new) for a one-character old
RECURSIVE Replace(_, _, _)
Replace(s, old, new) ==
    IF s = <<>> THEN <<>>
    ELSE (IF Head(s) = old THEN new ELSE <<Head(s)>>) \o Replace(Tail(s), old, new)

\* template.format(arg) for a template with at most one "{}" field
Format(template, arg) ==
    LET at == Find(template, <<"{", "}">>)
    IN IF at = 0 THEN template
       ELSE SubSeq(template, 1, at - 1) \o arg \o Tail_From(template, at + 2)

\* Repeat with the count ignored: a single copy
RepeatOnce(n, s) == s

\* n * s for a str s: s repeated n times, the empty str for n <= 0
RECURSIVE Repeat(_, _)
Repeat(n, s) == IF n <= 0 THEN <<>> ELSE s \o Repeat(n - 1, s)

\* shlex.quote
quote(s) ==
    IF s = <<>> THEN <<"'", "'">>
    ELSE IF \A i \in 1..Len(s) : s[i] \in Range(SAFE_CHARS) THEN s
    ELSE <<"'">> \o Replace(s, "'", QUOTE_ESCAPE) \o <<"'">>

\* bytes.decode('utf-8') on ASCII bytes: code point b is ASCII_PRINTABLE[b - 31]
decode(bytes) == [i \in 1..Len(bytes) |-> ASCII_PRINTABLE[bytes[i] - 31]]

\* the position of the last "/" of a path, 0 when it has none
LastSlash(p) ==
    IF "/" \in Range(p)
    THEN CHOOSE i \in 1..Len(p) : p[i] = "/" /\ \A j \in (i + 1)..Len(p) : p[j] # "/"
    ELSE 0

\* os.path.join(a, b)
path_join(a, b) ==
    IF b # <<>> /\ b[1] = "/" THEN b
    ELSE IF a = <<>> \/ a[Len(a)] = "/" THEN a \o b
    ELSE a \o <<"/">> \o b

\* os.path.basename
basename(p) == Tail_From(p, LastSlash(p) + 1)

\* os.path.dirname (the root "/" stays "/")
dirname(p) ==
    LET at == LastSlash(p)
    IN IF at = 0 THEN <<>> ELSE IF at = 1 THEN <<"/">> ELSE SubSeq(p, 1, at - 1)

\* getattr(settings, name, default): an attribute is <<>> when the settings
\* module does not define it, <<value>> when it does
getattr(s, name, default) == IF s[name] = <<>> THEN default ELSE s[name][1]
\* a base_filename naming a directory that does not exist in the workspace
BASE_SUBDIR ==
    <<"a","/","b">>

\* a tex source
SRC_ONE ==
    <<"\\","a">>

\* another tex source
SRC_TWO ==
    <<"\\","b">>

\* log text an interpreter run writes
LOG_FIRST ==
    <<"!","1">>

\* log text a later interpreter run writes
LOG_SECOND ==
    <<"!","2">>

\* a printer name of safe characters
PRINTER_PLAIN ==
    <<"h","p","1">>

\* a printer name with a space and a quote
PRINTER_SPACED ==
    <<"m","y"," ","'","h","p">>

\* a print command PRINTING_DEVICE_OPTIONS does not list
CMD_UNKNOWN ==
    <<"x","p","p">>

\* a LATEX_UNIX_PRINT_OPTIONS value
PRINT_OPTS ==
    <<"-","r">>

\* a LATEX_INTERPRETER_OPTIONS value
INTERP_OPTS ==
    <<"-","h","a","l","t">>

\* an extra printing option of a caller
EXTRA_A ==
    <<"-","#","2">>

\* an extra printing option of another caller
EXTRA_B ==
    <<"-","#","3">>

\* a base_filename other than the default
BASE_OTHER ==
    <<"d","o","c">>

\* a temporary directory root with a space in its name
TMP_SPACED ==
    <<"/","m","y"," ","t","m","p">>

\* a value a caller's callable returns
RESULT_TEXT ==
    <<"o","k">>

(***************************************************************************)
(* Python objects, the file system and the shell                           *)
(***************************************************************************)

\* a Python value or exception: its type name and its constructor arguments
PyObj(type, args) == [type |-> type, args |-> args]

PyNone == PyObj("NoneType", <<>>)

\* how a call or a callback ended, or NoOutcome while it has not
Returned(obj) == [kind |-> "return", obj |-> obj]
Raised(exc) == [kind |-> "raise", obj |-> exc]
NoOutcome == [kind |-> "none", obj |-> PyNone]

\* subprocess.CompletedProcess: returncode and captured stderr (bytes);
\* returncode is -1 while the command has not ended
NotRun == [returncode |-> -1, stderr |-> <<>>]

\* file system entries: a directory, or a regular file with its content
Dir == [kind |-> "dir", data |-> <<>>]
File(data) == [kind |-> "file", data |-> data]

Exists(f, p) == p \in DOMAIN f
isdir(f, p) == Exists(f, p) /\ f[p].kind = "dir"
\* os.path.isfile
isfile(f, p) == Exists(f, p) /\ f[p].kind = "file"

\* f with the entry e at path p, created or replaced
WithEntry(f, p, e) == [q \in DOMAIN f \cup {p} |-> IF q = p THEN e ELSE f[q]]

\* rmtree that removes nothing: a workspace made without cleanup
rmtree_nothing(f, d) == f

\* shutil.rmtree(d): d and everything below it are gone
rmtree(f, d) == [q \in {p \in DOMAIN f : p # d /\ ~StartsWith(p, d \o <<"/">>)} |-> f[q]]

\* the entries of f below directory d
Below(f, d) == {p \in DOMAIN f : StartsWith(p, d \o <<"/">>)}

\* a shell "a && b && c" list: the commands between the && operators
RECURSIVE AndList(_)
AndList(cmd) ==
    LET at == Find(cmd, <<"&", "&">>)
    IN IF at = 0 THEN <<cmd>>
       ELSE <<SubSeq(cmd, 1, at - 1)>> \o AndList(Tail_From(cmd, at + 2))

\* a command without its leading and trailing blanks
RECURSIVE Strip(_)
Strip(s) ==
    IF s = <<>> THEN s
    ELSE IF Head(s) = " " THEN Strip(Tail(s))
    ELSE IF s[Len(s)] = " " THEN Strip(SubSeq(s, 1, Len(s) - 1))
    ELSE s

\* the last blank-separated word of a command
LastWord(s) ==
    LET t == Strip(s)
        blanks == {i \in 1..Len(t) : t[i] = " "}
    IN IF blanks = {} THEN t
       ELSE Tail_From(t, (CHOOSE i \in blanks : \A j \in blanks : j <= i) + 1)

IsCd(seg) == StartsWith(Strip(seg), <<"c", "d", " ">>)

\* the directory a  cd "<dir>"  command names
CdTarget(seg) ==
    LET t == Strip(seg)
    IN SubSeq(t, 5, Len(t) - 1)

\* the job name of an interpreter command: its file argument without .tex
JobName(seg) ==
    LET w == LastWord(seg)
    IN IF Len(w) >= 4 /\ Tail_From(w, Len(w) - 3) = DOT_TEX
       THEN SubSeq(w, 1, Len(w) - 4) ELSE w

(***************************************************************************)
(* State                                                                   *)
(***************************************************************************)
VARIABLES
    tmproot,        \* tempfile.gettempdir()
    settings,       \* django.conf.settings: attribute -> <<>> or <<value>>
    objs,           \* the TexBuildCore instances: source, base_filename,
                    \* _extra_printing_option
    fs,             \* the file system: path -> entry
    pc,             \* per call: where the call is
    self,           \* per call: the instance it was made on (0: none yet)
    call_back,      \* per call: the call_back argument of _process_tex
    argument,       \* per call: the extra_printing_option argument it was given
    tempdir,        \* per call: the TemporaryDirectory name (<<>>: none)
    latex_command,  \* per call: the command of line 50
    todo,           \* per call: the commands of the && list still to run
    cwd,            \* per call: the shell's working directory
    exits,          \* per call: the exit codes of the interpreter invocations
                    \* the shell has started, in order
    process,        \* per call: the CompletedProcess of line 51
    cbArgs,         \* per call: the argument tuples call_back was called with
    cbResult,       \* per call: how call_back ended
    pending,        \* per call: the outcome leaving the with block
    outcome,        \* per call: what _process_tex returned or raised
    issued,         \* per call: the commands given to subprocess.run
    printRun,       \* per call: the CompletedProcess of line 88
    logged          \* per call: the records given to the logger

vars == <<tmproot, settings, objs, fs, pc, self, call_back, argument, tempdir, latex_command,
          todo, cwd, exits, process, cbArgs, cbResult, pending, outcome,
          issued, printRun, logged>>
(***************************************************************************)
(* The pure parts of TexBuildCore                                          *)
(***************************************************************************)

\* core.py:21-24
PRINTING_DEVICE_OPTIONS == [k \in {LP, LPR} |-> IF k = LP THEN LP_DEVICE ELSE LPR_DEVICE]

\* core.py:46-50: the shell command for a workspace and a tex file name
LatexCommand(s, dir, filename) ==
    LET latex_interpreter == getattr(s, "LATEX_INTERPRETER", DEFAULT_INTERPRETER)
        latex_run_count == getattr(s, "LATEX_RUN_COUNT", DEFAULT_RUN_COUNT)
        latex_interpreter_options == getattr(s, "LATEX_INTERPRETER_OPTIONS", <<>>)
        latex_call == AND_SEP \o latex_interpreter \o BATCHMODE
                        \o latex_interpreter_options \o <<" ">> \o basename(filename)
    IN CD_OPEN \o dir \o CD_CLOSE \o Repeat(latex_run_count, latex_call)

\* core.py:54-55: open(<tempdir>/texput.log).read(), or the error open raises
ReadLog(f, dir) ==
    LET path == path_join(dir, TEXPUT_LOG)
    IN IF ~Exists(f, path) THEN Raised(PyObj("FileNotFoundError", <<path>>))
       ELSE IF f[path].kind = "dir" THEN Raised(PyObj("IsADirectoryError", <<path>>))
       ELSE Returned(PyObj("str", <<f[path].data>>))

\* TryBody without the os.path.isfile check of line 58
TryBodyNoArtifactCheck(proc, f, dir, base, source) ==
    IF proc.returncode = 1
    THEN LET log == ReadLog(f, dir)
         IN IF log.kind = "raise" THEN log
            ELSE Raised(PyObj("TexError", <<log.obj.args[1], source>>))
    ELSE [kind |-> "call", obj |-> PyNone]

\* TryBody with every nonzero exit code taken for a failed compile
TryBodyNonzeroFails(proc, f, dir, base, source) ==
    LET pdf_temp_file == path_join(dir, base \o DOT_PDF)
    IN IF proc.returncode # 0
       THEN LET log == ReadLog(f, dir)
            IN IF log.kind = "raise" THEN log
               ELSE Raised(PyObj("TexError", <<log.obj.args[1], source>>))
       ELSE IF ~isfile(f, pdf_temp_file)
       THEN Raised(PyObj("FileNotFoundError",
                         <<MSG_FILE \o pdf_temp_file \o MSG_NOT_FOUND>>))
       ELSE [kind |-> "call", obj |-> PyNone]

\* core.py:53-60: the body of the try block up to the call of call_back:
\* the exception it raises, or kind "call" when it goes on to call_back
TryBody(proc, f, dir, base, source) ==
    LET pdf_temp_file == path_join(dir, base \o DOT_PDF)
    IN IF proc.returncode = 1
       THEN LET log == ReadLog(f, dir)
            IN IF log.kind = "raise" THEN log
               ELSE Raised(PyObj("TexError", <<log.obj.args[1], source>>))
       ELSE IF ~isfile(f, pdf_temp_file)
       THEN Raised(PyObj("FileNotFoundError",
                         <<MSG_FILE \o pdf_temp_file \o MSG_NOT_FOUND>>))
       ELSE [kind |-> "call", obj |-> PyNone]

\* ExceptClause with a bare raise: the captured stderr is never used
ExceptClauseReraise(exc, proc) == exc

\* core.py:61-64: what leaves the try statement when exc was raised in it
ExceptClause(exc, proc) ==
    IF exc.type = "FileNotFoundError"
    THEN IF proc.stderr # <<>>
         THEN PyObj("Exception", <<decode(proc.stderr)>>)
         ELSE exc
    ELSE exc

\* core.py:67-68: _get_pdf_worker
GetPdfWorker(f, dir, pdf_filename) ==
    LET path == path_join(dir, pdf_filename)
    IN IF ~Exists(f, path) THEN Raised(PyObj("FileNotFoundError", <<path>>))
       ELSE IF f[path].kind = "dir" THEN Raised(PyObj("IsADirectoryError", <<path>>))
       ELSE Returned(PyObj("bytes", <<f[path].data>>))

\* PrintCommand with the printer name interpolated without shlex.quote
PrintCommandUnquoted(s) ==
    LET printer == s["LATEX_PRINTER"]
        print_command == getattr(s, "LATEX_UNIX_PRINT_COMMAND", DEFAULT_PRINT_COMMAND)
    IN IF printer = <<>> THEN print_command
       ELSE IF print_command \notin DOMAIN PRINTING_DEVICE_OPTIONS THEN print_command
       ELSE print_command \o <<" ">>
              \o Format(PRINTING_DEVICE_OPTIONS[print_command], printer[1])

\* core.py:75-86: print_command after the printer selection
PrintCommand(s) ==
    LET printer == s["LATEX_PRINTER"]       \* <<>> is None
        print_command == getattr(s, "LATEX_UNIX_PRINT_COMMAND", DEFAULT_PRINT_COMMAND)
    IN IF printer = <<>> THEN print_command
       ELSE IF print_command \notin DOMAIN PRINTING_DEVICE_OPTIONS THEN print_command
       ELSE print_command \o <<" ">>
              \o Format(PRINTING_DEVICE_OPTIONS[print_command], quote(printer[1]))

\* core.py:78-83: the log record of the printer selection, <<>> when none
SelectionLog(s) ==
    LET printer == s["LATEX_PRINTER"]
        print_command == getattr(s, "LATEX_UNIX_PRINT_COMMAND", DEFAULT_PRINT_COMMAND)
    IN IF printer = <<>> THEN <<[level |-> "debug", msg |-> MSG_NO_PRINTER]>>
       ELSE IF print_command \notin DOMAIN PRINTING_DEVICE_OPTIONS
       THEN <<[level |-> "warning",
               msg |-> MSG_UNKNOWN_A \o print_command \o MSG_UNKNOWN_B]>>
       ELSE <<>>

\* core.py:74, 87: full_command
FullCommand(s, extra, dir, pdf_filename) ==
    LET path == path_join(dir, pdf_filename)
        print_options == getattr(s, "LATEX_UNIX_PRINT_OPTIONS", <<>>)
    IN PrintCommand(s) \o <<" ">> \o print_options \o <<" ">> \o extra
         \o <<" ">> \o quote(path)

\* PrintOutcome that takes only exit code 1 for a failure, as line 53 does
PrintOutcomeOnlyExitOne(full_command, proc) ==
    IF proc.returncode = 1
    THEN Raised(PyObj("PrintError",
            <<MSG_PRINTING_WITH \o full_command \o MSG_RESULTED
                \o decode(proc.stderr) \o <<"'">> >>))
    ELSE Returned(PyNone)

\* core.py:89-93: how the print worker ends for a finished print command
PrintOutcome(full_command, proc) ==
    IF proc.returncode # 0
    THEN Raised(PyObj("PrintError",
            <<MSG_PRINTING_WITH \o full_command \o MSG_RESULTED
                \o decode(proc.stderr) \o <<"'">> >>))
    ELSE Returned(PyNone)

\* core.py:91-93: the log records written after the print command
PrintLog(full_command, proc) ==
    IF proc.returncode = 0 /\ Len(proc.stderr) > 0
    THEN <<[level |-> "warning",
            msg |-> MSG_PRINTING_WITH \o full_command \o MSG_STILL_WROTE
                      \o decode(proc.stderr)]>>
    ELSE <<>>
(***************************************************************************)
(* Operations.  Every call c exits the steps of one TexBuildCore method     *)
(* call; calls interleave between the steps.  in is the record of the sets *)
(* the inputs and the outcomes of the external programs are drawn from.    *)
(***************************************************************************)

Set(f, c, v) == [f EXCEPT ![c] = v]

\* tempfile.mkdtemp: a candidate name is gettempdir()/tmp<k>
TempName(root, k) == path_join(root, <<"t", "m", "p", ASCII_PRINTABLE[17 + k]>>)

\* core.py:70-71: get_pdf() on instance o
get_pdf(c, o) ==
    /\ pc[c] = "idle"
    /\ pc' = Set(pc, c, "process_tex")
    /\ self' = Set(self, c, o)
    /\ call_back' = Set(call_back, c, [kind |-> "_get_pdf_worker", result |-> NoOutcome])
    /\ UNCHANGED <<tmproot, settings, objs, fs, argument, tempdir, latex_command, todo, cwd, exits,
                   process, cbArgs, cbResult, pending, outcome, issued, printRun, logged>>

\* core.py:95-97: print_pdf_unix(extra_printing_option) on instance o
print_pdf_unix(c, o, extra_printing_option) ==
    /\ pc[c] = "idle"
    /\ objs' = [objs EXCEPT ![o]._extra_printing_option = extra_printing_option]
    /\ pc' = Set(pc, c, "process_tex")
    /\ self' = Set(self, c, o)
    /\ call_back' = Set(call_back, c,
                        [kind |-> "_print_pdf_worker_unix", result |-> NoOutcome])
    /\ argument' = Set(argument, c, extra_printing_option)
    /\ UNCHANGED <<tmproot, settings, fs, tempdir, latex_command, todo, cwd, exits,
                   process, cbArgs, cbResult, pending, outcome, issued, printRun, logged>>

\* core.py:33: _process_tex(call_back) on instance o, with an argument f that
\* is a callable of the caller or no callable at all
process_tex(c, o, f) ==
    /\ pc[c] = "idle"
    /\ pc' = Set(pc, c, "process_tex")
    /\ self' = Set(self, c, o)
    /\ call_back' = Set(call_back, c, f)
    /\ UNCHANGED <<tmproot, settings, objs, fs, argument, tempdir, latex_command, todo, cwd, exits,
                   process, cbArgs, cbResult, pending, outcome, issued, printRun, logged>>

\* core.py:40-41: the argument is not callable
RejectCallBack(c) ==
    /\ pc[c] = "process_tex"
    /\ call_back[c].kind = "not_callable"
    /\ outcome' = Set(outcome, c, Raised(PyObj("ValueError", <<MSG_NOT_CALLABLE>>)))
    /\ pc' = Set(pc, c, "done")
    /\ UNCHANGED <<tmproot, settings, objs, fs, self, call_back, argument, tempdir, latex_command,
                   todo, cwd, exits, process, cbArgs, cbResult, pending, issued,
                   printRun, logged>>

\* core.py:42-51: create the workspace, write the source with open(.., 'x'),
\* build the command and start it.  The write fails when the directory of
\* the file does not exist, when the file exists, or (writeOk false) when
\* the operating system refuses the write.
EnterWorkspace(c, k, writeOk) ==
    LET dir == TempName(tmproot, k)
        me == objs[self[c]]
        filename == path_join(dir, me.base_filename \o DOT_TEX)
        made == WithEntry(fs, dir, Dir)
        command == LatexCommand(settings, dir, filename)
    IN /\ pc[c] = "process_tex"
       /\ call_back[c].kind # "not_callable"
       /\ ~Exists(fs, dir)
       /\ tempdir' = Set(tempdir, c, dir)
       /\ IF ~isdir(made, dirname(filename))
          THEN /\ fs' = made
               /\ pending' = Set(pending, c, Raised(PyObj("FileNotFoundError", <<filename>>)))
               /\ pc' = Set(pc, c, "exit")
               /\ UNCHANGED <<latex_command, todo, issued>>
          ELSE IF Exists(made, filename)
          THEN /\ fs' = made
               /\ pending' = Set(pending, c, Raised(PyObj("FileExistsError", <<filename>>)))
               /\ pc' = Set(pc, c, "exit")
               /\ UNCHANGED <<latex_command, todo, issued>>
          ELSE IF ~writeOk
          THEN /\ fs' = WithEntry(made, filename, File(<<>>))
               /\ pending' = Set(pending, c, Raised(PyObj("OSError", <<filename>>)))
               /\ pc' = Set(pc, c, "exit")
               /\ UNCHANGED <<latex_command, todo, issued>>
          ELSE /\ fs' = WithEntry(made, filename, File(me.source))
               /\ latex_command' = Set(latex_command, c, command)
               /\ todo' = Set(todo, c, AndList(command))
               /\ issued' = Set(issued, c, Append(issued[c], command))
               /\ pc' = Set(pc, c, "shell")
               /\ UNCHANGED pending
       /\ UNCHANGED <<tmproot, settings, objs, self, call_back, argument, cwd, exits, process,
                      cbArgs, cbResult, outcome, printRun, logged>>

\* the shell ends the && list with exit code rc when rc is not 0 or no
\* command is left, and goes on to the next command otherwise
ShellGoesOn(c, rc, err) ==
    IF rc # 0 \/ Len(todo[c]) = 1
    THEN /\ process' = Set(process, c, [returncode |-> rc, stderr |-> err])
         /\ todo' = Set(todo, c, <<>>)
         /\ pc' = Set(pc, c, "inspect")
    ELSE /\ process' = Set(process, c, [returncode |-> -1, stderr |-> err])
         /\ todo' = Set(todo, c, Tail(todo[c]))
         /\ pc' = pc

\* core.py:50-51: the shell exits  cd "<tempdir>"
ShellCd(c) ==
    /\ pc[c] = "shell"
    /\ IsCd(Head(todo[c]))
    /\ LET target == CdTarget(Head(todo[c]))
       IN IF isdir(fs, target)
          THEN /\ cwd' = Set(cwd, c, target)
               /\ ShellGoesOn(c, 0, process[c].stderr)
          ELSE /\ cwd' = cwd
               /\ ShellGoesOn(c, 1, process[c].stderr)
    /\ UNCHANGED <<tmproot, settings, objs, fs, self, call_back, argument, tempdir, latex_command,
                   exits, cbArgs, cbResult, pending, outcome, issued, printRun, logged>>

\* core.py:49-51: the shell exits one interpreter invocation.  The interpreter
\* is an external program: it ends with exit code rc, writes err to stderr,
\* and may write the job's pdf (pdf = <<entry>>) and texput.log
\* (log = <<text>>) into the working directory.
ShellInterpreter(c, rc, err, pdf, log) ==
    /\ pc[c] = "shell"
    /\ ~IsCd(Head(todo[c]))
    /\ LET job == JobName(Head(todo[c]))
           pdfPath == path_join(cwd[c], job \o DOT_PDF)
           logPath == path_join(cwd[c], TEXPUT_LOG)
           f1 == IF pdf = <<>> THEN fs ELSE WithEntry(fs, pdfPath, pdf[1])
           f2 == IF log = <<>> THEN f1 ELSE WithEntry(f1, logPath, File(log[1]))
       IN fs' = f2
    /\ exits' = Set(exits, c, Append(exits[c], rc))
    /\ ShellGoesOn(c, rc, process[c].stderr \o err)
    /\ UNCHANGED <<tmproot, settings, objs, self, call_back, argument, tempdir, latex_command, cwd,
                   cbArgs, cbResult, pending, outcome, issued, printRun, logged>>

\* core.py:52-64: the try block up to the call of call_back
Inspect(c) ==
    LET me == objs[self[c]]
        body == TryBody(process[c], fs, tempdir[c], me.base_filename, me.source)
    IN /\ pc[c] = "inspect"
       /\ IF body.kind = "raise"
          THEN /\ pending' = Set(pending, c, Raised(ExceptClause(body.obj, process[c])))
               /\ pc' = Set(pc, c, "exit")
               /\ UNCHANGED cbArgs
          ELSE /\ cbArgs' = Set(cbArgs, c,
                                Append(cbArgs[c], <<tempdir[c], me.base_filename \o DOT_PDF>>))
               /\ pc' = Set(pc, c, "callback")
               /\ UNCHANGED pending
       /\ UNCHANGED <<tmproot, settings, objs, fs, self, call_back, argument, tempdir, latex_command,
                      todo, cwd, exits, process, cbResult, outcome, issued, printRun, logged>>

\* core.py:66-68: call_back is _get_pdf_worker
get_pdf_worker(c) ==
    LET args == cbArgs[c][Len(cbArgs[c])]
    IN /\ pc[c] = "callback"
       /\ call_back[c].kind = "_get_pdf_worker"
       /\ cbResult' = Set(cbResult, c, GetPdfWorker(fs, args[1], args[2]))
       /\ pc' = Set(pc, c, "returning")
       /\ UNCHANGED <<tmproot, settings, objs, fs, self, call_back, argument, tempdir, latex_command,
                      todo, cwd, exits, process, cbArgs, pending, outcome, issued,
                      printRun, logged>>

\* core.py:73-93: call_back is _print_pdf_worker_unix.  The print command is
\* an external program: it ends with exit code rc and stderr err.
print_pdf_worker_unix(c, rc, err) ==
    LET args == cbArgs[c][Len(cbArgs[c])]
        full_command == FullCommand(settings, objs[self[c]]._extra_printing_option,
                                    args[1], args[2])
        proc == [returncode |-> rc, stderr |-> err]
    IN /\ pc[c] = "callback"
       /\ call_back[c].kind = "_print_pdf_worker_unix"
       /\ issued' = Set(issued, c, Append(issued[c], full_command))
       /\ printRun' = Set(printRun, c, proc)
       /\ logged' = Set(logged, c, logged[c] \o SelectionLog(settings)
                                      \o PrintLog(full_command, proc))
       /\ cbResult' = Set(cbResult, c, PrintOutcome(full_command, proc))
       /\ pc' = Set(pc, c, "returning")
       /\ UNCHANGED <<tmproot, settings, objs, fs, self, call_back, argument, tempdir, latex_command,
                      todo, cwd, exits, process, cbArgs, pending, outcome>>

\* call_back is a callable of the caller: it returns or raises as it does
caller_call_back(c) ==
    /\ pc[c] = "callback"
    /\ call_back[c].kind = "callable"
    /\ cbResult' = Set(cbResult, c, call_back[c].result)
    /\ pc' = Set(pc, c, "returning")
    /\ UNCHANGED <<tmproot, settings, objs, fs, self, call_back, argument, tempdir, latex_command,
                   todo, cwd, exits, process, cbArgs, pending, outcome, issued,
                   printRun, logged>>

\* core.py:60-64: call_back has ended inside the try block: its value is
\* returned, its exception passes the except clause
Return(c) ==
    /\ pc[c] = "returning"
    /\ pending' = Set(pending, c,
                      IF cbResult[c].kind = "raise"
                      THEN Raised(ExceptClause(cbResult[c].obj, process[c]))
                      ELSE cbResult[c])
    /\ pc' = Set(pc, c, "exit")
    /\ UNCHANGED <<tmproot, settings, objs, fs, self, call_back, argument, tempdir, latex_command,
                   todo, cwd, exits, process, cbArgs, cbResult, outcome, issued,
                   printRun, logged>>

\* core.py:42: TemporaryDirectory.__exit__ removes the workspace, then the
\* value or the exception leaves _process_tex
ExitWorkspace(c) ==
    /\ pc[c] = "exit"
    /\ fs' = rmtree(fs, tempdir[c])
    /\ outcome' = Set(outcome, c, pending[c])
    /\ pc' = Set(pc, c, "done")
    /\ UNCHANGED <<tmproot, settings, objs, self, call_back, argument, tempdir, latex_command,
                   todo, cwd, exits, process, cbArgs, cbResult, pending, issued,
                   printRun, logged>>
(***************************************************************************)
(* Bounds and inputs                                                       *)
(***************************************************************************)

\* LATEX_RUN_COUNT is set to 1..MaxRunCount, or left unset
MaxRunCount == 2
\* the external programs end with an exit code in 0..MaxExitCode
MaxExitCode == 2
\* mkdtemp chooses among NumTempNames names
NumTempNames == 2
\* the calls that may run interleaved
MaxCalls == 2
\* the TexBuildCore instances the interleaved calls are made on
NumObjects == 2

Calls == 1..MaxCalls

\* b"err", what an external program writes to stderr
ERR_BYTES == <<101, 114, 114>>
\* b"%PDF", the content of a pdf the interpreter writes
PDF_BYTES == <<37, 80, 68, 70>>

\* the settings modules with the given values of each attribute
SettingsOver(counts, interpOpts, printers, commands, printOpts) ==
    [LATEX_INTERPRETER : {<<>>},
     LATEX_RUN_COUNT : counts,
     LATEX_INTERPRETER_OPTIONS : interpOpts,
     LATEX_PRINTER : printers,
     LATEX_UNIX_PRINT_COMMAND : commands,
     LATEX_UNIX_PRINT_OPTIONS : printOpts]

\* core.py:28-31: TexBuildCore(source, base_filename)
TexBuildCore(source, base_filename) ==
    [source |-> source, base_filename |-> base_filename, _extra_printing_option |-> <<>>]

RunCounts == {<<>>} \cup {<<n>> : n \in 1..MaxRunCount}
ExitCodes == 0..MaxExitCode

\* the call_back arguments a caller of _process_tex passes itself
Callables ==
    {[kind |-> "callable", result |-> r] :
        r \in {Returned(PyObj("str", <<RESULT_TEXT>>)),
               Raised(PyObj("FileNotFoundError", <<RESULT_TEXT>>)),
               Raised(PyObj("RuntimeError", <<RESULT_TEXT>>))}}
NotCallable == [kind |-> "not_callable", result |-> NoOutcome]

\* one call at a time, every way the compile can go
CompileInputs ==
    [callers |-> {1},
     tmproots |-> {TMP_ROOT},
     settings |-> SettingsOver(RunCounts, {<<>>, <<INTERP_OPTS>>}, {<<>>}, {<<>>}, {<<>>}),
     objs |-> {[o \in {1} |-> TexBuildCore(SRC_ONE, b)] :
                    b \in {DEFAULT_BASE, BASE_OTHER, BASE_SUBDIR}},
     call_backs |-> Callables \cup {NotCallable},
     extras |-> {<<>>},
     writeOk |-> BOOLEAN,
     exitCodes |-> ExitCodes,
     stderrs |-> {<<>>, ERR_BYTES},
     pdfs |-> {<<>>, <<File(PDF_BYTES)>>, <<Dir>>},
     logs |-> {<<>>, <<LOG_FIRST>>, <<LOG_SECOND>>},
     printExitCodes |-> {0, 1},
     printStderrs |-> {<<>>}]

\* one call at a time, every print configuration and print result
PrintInputs ==
    [callers |-> {1},
     tmproots |-> {TMP_ROOT, TMP_SPACED},
     settings |-> SettingsOver({<<>>}, {<<>>},
                               {<<>>, <<PRINTER_PLAIN>>, <<PRINTER_SPACED>>, <<<<>>>>},
                               {<<>>, <<LP>>, <<LPR>>, <<CMD_UNKNOWN>>},
                               {<<>>, <<PRINT_OPTS>>}),
     objs |-> {[o \in {1} |-> TexBuildCore(SRC_ONE, DEFAULT_BASE)]},
     call_backs |-> {[kind |-> "callable", result |-> Returned(PyObj("str", <<RESULT_TEXT>>))],
                     NotCallable},
     extras |-> {<<>>, EXTRA_A},
     writeOk |-> {TRUE},
     exitCodes |-> {0},
     stderrs |-> {<<>>},
     pdfs |-> {<<>>, <<File(PDF_BYTES)>>},
     logs |-> {<<>>},
     printExitCodes |-> ExitCodes,
     printStderrs |-> {<<>>, ERR_BYTES}]

\* interleaved calls on NumObjects instances
ConcurrentInputs ==
    [callers |-> Calls,
     tmproots |-> {TMP_ROOT},
     settings |-> SettingsOver({<<>>}, {<<>>}, {<<PRINTER_PLAIN>>}, {<<LP>>}, {<<>>}),
     objs |-> {[o \in 1..NumObjects |->
                    TexBuildCore(IF o = 1 THEN SRC_ONE ELSE SRC_TWO, DEFAULT_BASE)]},
     call_backs |-> {[kind |-> "callable", result |-> Returned(PyObj("str", <<RESULT_TEXT>>))],
                     NotCallable},
     extras |-> {EXTRA_A, EXTRA_B},
     writeOk |-> {TRUE},
     exitCodes |-> {0, 1},
     stderrs |-> {<<>>},
     pdfs |-> {<<File(PDF_BYTES)>>},
     logs |-> {<<LOG_FIRST>>},
     printExitCodes |-> {0},
     printStderrs |-> {<<>>}]

(***************************************************************************)
(* Specifications                                                          *)
(***************************************************************************)

InitOver(in) ==
    /\ tmproot \in in.tmproots
    /\ settings \in in.settings
    /\ objs \in in.objs
    /\ fs = [p \in {<<"/">>, tmproot} |-> Dir]
    /\ pc = [c \in Calls |-> "idle"]
    /\ self = [c \in Calls |-> 0]
    /\ call_back = [c \in Calls |-> NotCallable]
    /\ argument = [c \in Calls |-> <<>>]
    /\ tempdir = [c \in Calls |-> <<>>]
    /\ latex_command = [c \in Calls |-> <<>>]
    /\ todo = [c \in Calls |-> <<>>]
    /\ cwd = [c \in Calls |-> <<"/">>]
    /\ exits = [c \in Calls |-> <<>>]
    /\ process = [c \in Calls |-> NotRun]
    /\ cbArgs = [c \in Calls |-> <<>>]
    /\ cbResult = [c \in Calls |-> NoOutcome]
    /\ pending = [c \in Calls |-> NoOutcome]
    /\ outcome = [c \in Calls |-> NoOutcome]
    /\ issued = [c \in Calls |-> <<>>]
    /\ printRun = [c \in Calls |-> NotRun]
    /\ logged = [c \in Calls |-> <<>>]

NextOver(in) ==
    \E c \in in.callers :
        \/ \E o \in DOMAIN objs : get_pdf(c, o)
        \/ \E o \in DOMAIN objs, x \in in.extras : print_pdf_unix(c, o, x)
        \/ \E o \in DOMAIN objs, f \in in.call_backs : process_tex(c, o, f)
        \/ RejectCallBack(c)
        \/ \E k \in 1..NumTempNames, ok \in in.writeOk : EnterWorkspace(c, k, ok)
        \/ ShellCd(c)
        \/ \E rc \in in.exitCodes, err \in in.stderrs, pdf \in in.pdfs, log \in in.logs :
              ShellInterpreter(c, rc, err, pdf, log)
        \/ Inspect(c)
        \/ get_pdf_worker(c)
        \/ \E rc \in in.printExitCodes, err \in in.printStderrs :
              print_pdf_worker_unix(c, rc, err)
        \/ caller_call_back(c)
        \/ Return(c)
        \/ ExitWorkspace(c)

Init == InitOver(CompileInputs)
Next == NextOver(CompileInputs)
Spec == Init /\ [][Next]_vars

PrintInit == InitOver(PrintInputs)
PrintNext == NextOver(PrintInputs)
PrintSpec == PrintInit /\ [][PrintNext]_vars

ConcurrentInit == InitOver(ConcurrentInputs)
ConcurrentNext == NextOver(ConcurrentInputs)
ConcurrentSpec == ConcurrentInit /\ [][ConcurrentNext]_vars
(***************************************************************************)
(* Properties                                                              *)
(***************************************************************************)

\* p occurs in s
Contains(s, p) == \E i \in 1..(Len(s) - Len(p) + 1) : SubSeq(s, i, i + Len(p) - 1) = p

\* the call has entered _process_tex and created its workspace
HasWorkspace(c) == tempdir[c] # <<>>
\* the shell command of line 51 has ended
Compiled(c) == process[c].returncode # -1
\* the pdf _process_tex looks for
PdfPath(c) == path_join(tempdir[c], objs[self[c]].base_filename \o DOT_PDF)
\* the number of interpreter invocations the shell has started for call c
Runs(c) == Len(exits[c])
\* the run count in force
RunCount == IF settings["LATEX_RUN_COUNT"] = <<>> THEN 1 ELSE settings["LATEX_RUN_COUNT"][1]
\* the workspace is still on disk with the files of the call in it
AfterInspect == {"callback", "returning", "exit"}

\* the words a POSIX shell splits a command into: blanks separate words,
\* '...' and "..." keep their content in one word
RECURSIVE ShWords(_, _, _, _, _)
ShWords(s, i, mode, cur, open) ==
    IF i > Len(s) THEN (IF open THEN <<cur>> ELSE <<>>)
    ELSE CASE mode = "plain" /\ s[i] = " " ->
                (IF open THEN <<cur>> ELSE <<>>) \o ShWords(s, i + 1, "plain", <<>>, FALSE)
           [] mode = "plain" /\ s[i] = "'" -> ShWords(s, i + 1, "single", cur, TRUE)
           [] mode = "plain" /\ s[i] = "\"" -> ShWords(s, i + 1, "double", cur, TRUE)
           [] mode = "single" /\ s[i] = "'" -> ShWords(s, i + 1, "plain", cur, TRUE)
           [] mode = "double" /\ s[i] = "\"" -> ShWords(s, i + 1, "plain", cur, TRUE)
           [] OTHER -> ShWords(s, i + 1, mode, Append(cur, s[i]), TRUE)
ShellWords(s) == ShWords(s, 1, "plain", <<>>, FALSE)

\* C1: once a call of _process_tex that created a workspace has returned or
\* raised, the workspace directory and every file in it are gone, whatever
\* the exit path was.
C1_WorkspaceRemoved ==
    \A c \in Calls :
        (pc[c] = "done" /\ HasWorkspace(c)) =>
            /\ ~Exists(fs, tempdir[c])
            /\ Below(fs, tempdir[c]) = {}

\* C1 witness: a call whose callback raised has ended, after the interpreter
\* had written files into the workspace.
C1_Witness ==
    \E c \in Calls :
        /\ pc[c] = "done" /\ HasWorkspace(c)
        /\ Runs(c) > 0
        /\ cbResult[c].kind = "raise"
        /\ outcome[c].kind = "raise"

\* C2 (as claimed): whenever the compile command ended with exit code 1, the
\* callback was not called and _process_tex raises TexError carrying the
\* content texput.log has at that moment and the original source.
C2_ExitOneRaisesTexError ==
    \A c \in Calls :
        (pc[c] = "exit" /\ Compiled(c) /\ process[c].returncode = 1) =>
            /\ cbArgs[c] = <<>>
            /\ pending[c].kind = "raise"
            /\ pending[c].obj.type = "TexError"
            /\ isfile(fs, path_join(tempdir[c], TEXPUT_LOG))
            /\ pending[c].obj.args =
                 <<fs[path_join(tempdir[c], TEXPUT_LOG)].data, objs[self[c]].source>>

\* C3: when the compile command ended with exit code 0 and the pdf is no
\* regular file, the callback is not called and _process_tex raises: an
\* Exception whose message is the decoded stderr when stderr is not empty,
\* the FileNotFoundError naming the pdf path otherwise.
C3_MissingArtifact ==
    \A c \in Calls :
        (pc[c] = "exit" /\ Compiled(c) /\ process[c].returncode = 0
            /\ ~isfile(fs, PdfPath(c))) =>
            /\ cbArgs[c] = <<>>
            /\ pending[c].kind = "raise"
            /\ IF process[c].stderr # <<>>
               THEN /\ pending[c].obj.type = "Exception"
                    /\ pending[c].obj.args = <<decode(process[c].stderr)>>
                    /\ process[c].stderr = ERR_BYTES =>
                          pending[c].obj.args = << <<"e", "r", "r">> >>
               ELSE /\ pending[c].obj.type = "FileNotFoundError"
                    /\ Contains(pending[c].obj.args[1], PdfPath(c))

\* C3 witness: exit code 0, no pdf, stderr not empty, the Exception pending.
C3_Witness ==
    \E c \in Calls :
        /\ pc[c] = "exit" /\ process[c].returncode = 0
        /\ ~Exists(fs, PdfPath(c))
        /\ process[c].stderr = ERR_BYTES
        /\ pending[c].obj.type = "Exception"

\* C4 (as claimed): once the compile command has ended, exactly RunCount
\* interpreter invocations have been started.
C4_ExactlyNInvocations ==
    \A c \in Calls : Compiled(c) => Runs(c) = RunCount

\* C4 (amended): the one compile command is a cd into the workspace followed
\* by exactly RunCount identical interpreter invocations joined by &&; the
\* shell starts them in order in the workspace and stops at the first one
\* that exits nonzero, so at most RunCount are started, all RunCount when
\* the command ends with exit code 0, and none is left to start once the
\* exit code is inspected.
C4_InvocationsInOneSession ==
    \A c \in Calls :
        Compiled(c) =>
            LET list == AndList(latex_command[c])
                calls == Tail(list)
            IN /\ issued[c][1] = latex_command[c]
               /\ IsCd(Head(list))
               /\ CdTarget(Head(list)) = tempdir[c]
               /\ Len(calls) = RunCount
               /\ \A i \in 1..RunCount :
                     /\ ~IsCd(calls[i])
                     /\ Strip(calls[i]) = Strip(calls[1])
               /\ cwd[c] = tempdir[c]
               /\ Runs(c) >= 1 /\ Runs(c) <= RunCount
               /\ \A i \in 1..(Runs(c) - 1) : exits[c][i] = 0
               /\ process[c].returncode = exits[c][Runs(c)]
               /\ Runs(c) < RunCount => exits[c][Runs(c)] # 0
               /\ todo[c] = <<>>

\* C4 witness: a compile with the largest run count ran every invocation.
C4_Witness ==
    \E c \in Calls :
        /\ pc[c] = "inspect"
        /\ RunCount = MaxRunCount
        /\ Runs(c) = RunCount

\* C5: the callback is called at most once, only after the compile command
\* ended with an exit code other than 1 and with the pdf a regular file, with
\* the arguments (workspace, "<base_filename>.pdf"), and the workspace is
\* there until the callback has returned or raised.
C5_CallbackInsideWorkspace ==
    \A c \in Calls :
        /\ Len(cbArgs[c]) <= 1
        /\ cbArgs[c] # <<>> =>
              /\ Compiled(c) /\ process[c].returncode # 1
              /\ cbArgs[c][1] = <<tempdir[c], objs[self[c]].base_filename \o DOT_PDF>>
              /\ HasWorkspace(c)
        /\ pc[c] \in {"callback", "returning"} =>
              /\ cbArgs[c] # <<>>
              /\ isdir(fs, tempdir[c])
              /\ isfile(fs, PdfPath(c))
        /\ (HasWorkspace(c) /\ ~Exists(fs, tempdir[c]) /\ cbArgs[c] # <<>>) =>
              cbResult[c].kind # "none"

\* C5 witness: the callback is running on a workspace with the pdf in it.
C5_Witness ==
    \E c \in Calls :
        /\ pc[c] = "callback"
        /\ Len(cbArgs[c]) = 1
        /\ isfile(fs, PdfPath(c))

\* C6 (as claimed): what the callback returned is what _process_tex returns,
\* and an exception the callback raised is the one _process_tex raises.
C6_CallbackOutcomePropagates ==
    \A c \in Calls :
        (pc[c] = "done" /\ cbResult[c].kind # "none") =>
            /\ outcome[c].kind = cbResult[c].kind
            /\ outcome[c].obj.type = cbResult[c].obj.type
            /\ outcome[c].obj.args = cbResult[c].obj.args
            /\ ~Exists(fs, tempdir[c])

\* C7 (as claimed): every command a call issues is the one it would issue
\* running alone: the compile command for its own workspace and instance,
\* and the print command carrying the extra option that call was given; and
\* no two calls use the same workspace.
C7_CallsAreIsolated ==
    /\ \A c \in Calls :
          /\ Len(issued[c]) >= 1 =>
                issued[c][1] = LatexCommand(settings, tempdir[c],
                                   path_join(tempdir[c],
                                             objs[self[c]].base_filename \o DOT_TEX))
          /\ Len(issued[c]) >= 2 =>
                issued[c][2] = FullCommand(settings, argument[c], tempdir[c],
                                           objs[self[c]].base_filename \o DOT_PDF)
    /\ \A c, d \in Calls :
          (c # d /\ HasWorkspace(c) /\ HasWorkspace(d)
             /\ pc[c] # "done" /\ pc[d] # "done") => tempdir[c] # tempdir[d]

\* the print worker of call c has run its command
Printed(c) == printRun[c].returncode # -1

\* the warning records of call c about output on stderr
StderrWarnings(c) ==
    {i \in 1..Len(logged[c]) :
        /\ logged[c][i].level = "warning"
        /\ StartsWith(logged[c][i].msg, MSG_PRINTING_WITH)}

\* C8: a print command that exits nonzero makes the print step raise
\* PrintError with the full command and the decoded stderr in its message;
\* one that exits 0 makes it return normally, with a warning record carrying
\* the stderr text exactly when stderr is not empty.
C8_PrintResult ==
    \A c \in Calls :
        Printed(c) =>
            IF printRun[c].returncode # 0
            THEN /\ cbResult[c].kind = "raise"
                 /\ cbResult[c].obj.type = "PrintError"
                 /\ Contains(cbResult[c].obj.args[1], issued[c][2])
                 /\ Contains(cbResult[c].obj.args[1], decode(printRun[c].stderr))
                 /\ printRun[c].stderr = ERR_BYTES =>
                       Contains(cbResult[c].obj.args[1], <<"'", "e", "r", "r", "'">>)
                 /\ StderrWarnings(c) = {}
            ELSE /\ cbResult[c].kind = "return"
                 /\ cbResult[c].obj = PyNone
                 /\ (StderrWarnings(c) # {}) <=> (printRun[c].stderr # <<>>)
                 /\ \A i \in StderrWarnings(c) :
                       /\ Contains(logged[c][i].msg, decode(printRun[c].stderr))
                       /\ Contains(logged[c][i].msg, <<"e", "r", "r">>)

\* C8 witness: a print command ended with exit code 2 and text on stderr.
C8_Witness ==
    \E c \in Calls :
        /\ printRun[c].returncode = 2
        /\ printRun[c].stderr = ERR_BYTES
        /\ cbResult[c].obj.type = "PrintError"

\* C8 second case reached: exit code 0 with text on stderr.
C8_WarningReached ==
    \E c \in Calls :
        /\ printRun[c].returncode = 0
        /\ printRun[c].stderr = ERR_BYTES
        /\ StderrWarnings(c) # {}

\* the configured print command, "lpr" when unset
ConfiguredCommand ==
    IF settings["LATEX_UNIX_PRINT_COMMAND"] = <<>> THEN LPR
    ELSE settings["LATEX_UNIX_PRINT_COMMAND"][1]
\* the configured print options, empty when unset
ConfiguredOptions ==
    IF settings["LATEX_UNIX_PRINT_OPTIONS"] = <<>> THEN <<>>
    ELSE settings["LATEX_UNIX_PRINT_OPTIONS"][1]
\* the warning records of call c about an unknown print command
UnknownCommandWarnings(c) ==
    {i \in 1..Len(logged[c]) :
        /\ logged[c][i].level = "warning"
        /\ StartsWith(logged[c][i].msg, MSG_UNKNOWN_A)
        /\ Contains(logged[c][i].msg, ConfiguredCommand)}

\* the prefix of the print command as the claim gives it, and the words the
\* shell is to see for it
ClaimedPrefix ==
    LET printer == settings["LATEX_PRINTER"]
    IN IF printer = <<>> THEN ConfiguredCommand
       ELSE IF ConfiguredCommand = LP
       THEN <<"l", "p", " ", "-", "d", " ">> \o quote(printer[1])
       ELSE IF ConfiguredCommand = LPR
       THEN <<"l", "p", "r", " ", "-", "P", " ">> \o quote(printer[1])
       ELSE ConfiguredCommand
ClaimedPrefixWords ==
    LET printer == settings["LATEX_PRINTER"]
    IN IF printer = <<>> THEN <<ConfiguredCommand>>
       ELSE IF ConfiguredCommand = LP THEN <<LP, <<"-", "d">>, printer[1]>>
       ELSE IF ConfiguredCommand = LPR THEN <<LPR, <<"-", "P">>, printer[1]>>
       ELSE <<ConfiguredCommand>>

\* C9: the print command is '<prefix> <options> <extra option> <escaped pdf
\* path>', the prefix being the print command alone when no printer is
\* configured, 'lp -d <escaped printer>' or 'lpr -P <escaped printer>' for lp
\* and lpr with a printer, and the command alone, with a warning and no
\* error, for any other command with a printer.  Escaped means the shell
\* sees the printer and the path as one word each, unchanged.
C9_PrintCommand ==
    \A c \in Calls :
        Printed(c) =>
            /\ issued[c][2] = ClaimedPrefix \o <<" ">> \o ConfiguredOptions \o <<" ">>
                                \o argument[c] \o <<" ">> \o quote(PdfPath(c))
            /\ ShellWords(issued[c][2]) =
                  ClaimedPrefixWords \o ShellWords(ConfiguredOptions)
                     \o ShellWords(argument[c]) \o <<PdfPath(c)>>
            /\ (settings["LATEX_PRINTER"] # <<>> /\ ConfiguredCommand \notin {LP, LPR}) =>
                  /\ UnknownCommandWarnings(c) # {}
                  /\ printRun[c].returncode = 0 => cbResult[c].kind = "return"

\* C9 witness: lp with a printer whose name needs escaping has printed.
C9_Witness ==
    \E c \in Calls :
        /\ Printed(c)
        /\ settings["LATEX_PRINTER"] = <<PRINTER_SPACED>>
        /\ ConfiguredCommand = LP
        /\ settings["LATEX_UNIX_PRINT_OPTIONS"] # <<>>
        /\ argument[c] # <<>>

\* C9 third case reached: an unknown command with a printer has printed.
C9_UnknownReached ==
    \E c \in Calls :
        /\ Printed(c)
        /\ settings["LATEX_PRINTER"] # <<>>
        /\ ConfiguredCommand = CMD_UNKNOWN
        /\ UnknownCommandWarnings(c) # {}

\* C10: with any exit code other than 1 the callback is called exactly when
\* the pdf is a regular file, a raise then comes only from a missing pdf or
\* from the callback, and with an exit code of 2 or more and the pdf in
\* place the value the callback returned is returned.
C10_OnlyArtifactGates ==
    \A c \in Calls :
        /\ (pc[c] \in AfterInspect /\ Compiled(c) /\ process[c].returncode # 1) =>
              /\ (cbArgs[c] # <<>>) <=> isfile(fs, PdfPath(c))
              /\ (pc[c] = "exit" /\ pending[c].kind = "raise") =>
                    (~isfile(fs, PdfPath(c)) \/ cbResult[c].kind = "raise")
        /\ (pc[c] = "done" /\ process[c].returncode >= 2 /\ cbResult[c].kind = "return") =>
              /\ outcome[c].kind = "return"
              /\ outcome[c].obj.type = cbResult[c].obj.type
              /\ outcome[c].obj.args = cbResult[c].obj.args

\* C10 witness: exit code 2, the pdf in place, the callback's value returned.
C10_Witness ==
    \E c \in Calls :
        /\ pc[c] = "done"
        /\ process[c].returncode = 2
        /\ cbArgs[c] # <<>>
        /\ outcome[c].kind = "return"
=============================================================================
